---- MODULE Spec2Model ----
(***************************************************************************)
(* A model of minilustre: the tokenizer (lexer.go), the recursive-descent  *)
(* parser and the Parse coordination of the two over a buffered channel    *)
(* (parser.go), and the one-pass lowering (compiler.go).                   *)
(*                                                                         *)
(* Source text is a sequence of runes; a rune is written as a one-rune     *)
(* string, and a token value is the sequence of its runes.                 *)
(***************************************************************************)
EXTENDS Integers, Sequences, FiniteSets, TLC

VARIABLES
    \* ---- Parse: the reader and the lexer (the caller's goroutine)
    input,      \* the runes the io.Reader delivers
    rerr,       \* the error the reader gives once its data is used up
    lx,         \* the lexer: rd (runes read from bufio), pos, lastRuneSize
    lexpc,      \* "scan" | "send" | "close" | "done"
    pending,    \* the item of a blocked or imminent send, and next's return
    lexErr,     \* what lex returned
    \* ---- Parse: the channels
    items,      \* the buffer of the items channel
    closes,     \* how many times the items channel has been closed
    sent,       \* history: every item sent on the channel
    done,       \* the buffer of the done channel
    \* ---- Parse: the parser goroutine
    peeked,     \* history: every item peek received
    parpc,      \* "parse" | "drain" | "exited"
    parFile,    \* the variable f of Parse
    crashed,    \* an unrecovered panic ended the program
    early,      \* history: p.parse() ended before lex had sent its last item
    \* ---- Parse: the caller
    mainpc,     \* "lex" | "recv" | "returned"
    ret,        \* what Parse returned
    \* ---- the parser alone, on a token sequence
    ptoks,      \* the items the parser is given
    pmode,      \* "expr" | "file" | "chain"
    pchain,     \* the members and operators the items of a chain spell
    pout,       \* what the parser returned
    \* ---- Compile
    file,       \* the File compiled
    cpc,        \* "node" | "assign" | "done" | "panicked"
    cidx, aidx, \* the node and the equation being lowered
    cvars,      \* ctx.vars
    funcs,      \* c.funcs: the function of each name, by its place in the module
    cmod,       \* c.m: the functions of the module, in the order of NewFunc
    cerr        \* what Compile returned

lexVars  == <<input, rerr, lx, lexpc, pending, lexErr>>
chanVars == <<items, closes, sent, done>>
goVars   == <<peeked, parpc, parFile, crashed, early>>
mainVars == <<mainpc, ret>>
parseVars == <<lexVars, chanVars, goVars, mainVars>>
parserVars == <<ptoks, pmode, pchain, pout>>
compVars == <<file, cpc, cidx, aidx, cvars, funcs, cmod, cerr>>
vars == <<parseVars, parserVars, compVars>>

\* ------------------------------------------------------------------ bounds
\* How many extra ";" tokens follow a source text (tokens left to produce
\* after the parser has ended).
MaxTail == 3

\* ------------------------------------------------------------------ items
itemEOF == 0
itemKeyword == 1
itemIdent == 2
itemNumber == 3
itemString == 4
itemOp == 5
itemLparen == 6
itemRparen == 7
itemColon == 8
itemSemi == 9
itemComma == 10
itemEq == 11

keywordAnd == <<"a","n","d">>
keywordBool == <<"b","o","o","l">>
keywordConst == <<"c","o","n","s","t">>
keywordElse == <<"e","l","s","e">>
keywordEnd == <<"e","n","d">>
keywordFalse == <<"f","a","l","s","e">>
keywordFby == <<"f","b","y">>
keywordFloat == <<"f","l","o","a","t">>
keywordIf == <<"i","f">>
keywordInt == <<"i","n","t">>
keywordLet == <<"l","e","t">>
keywordNode == <<"n","o","d","e">>
keywordNot == <<"n","o","t">>
keywordOr == <<"o","r">>
keywordReturns == <<"r","e","t","u","r","n","s">>
keywordString == <<"s","t","r","i","n","g">>
keywordTel == <<"t","e","l">>
keywordThen == <<"t","h","e","n">>
keywordTrue == <<"t","r","u","e">>
keywordUnit == <<"u","n","i","t">>
keywordVar == <<"v","a","r">>

Keywords ==
    {keywordIf, keywordLet, keywordAnd, keywordBool, keywordFloat, keywordConst,
     keywordElse, keywordEnd, keywordFalse, keywordInt, keywordNode, keywordNot,
     keywordOr, keywordReturns, keywordString, keywordTel, keywordThen,
     keywordTrue, keywordUnit, keywordVar, keywordFby}

item(t, v) == [typ |-> t, value |-> v]

\* The zero value of item: what a receive from the closed, empty channel gives.
ZeroItem == [typ |-> 0, value |-> <<>>]

\* No item: next returned without sending.
NoItem == [typ |-> -1, value |-> <<>>]

\* ------------------------------------------------------------------ errors
Nil == [e |-> "nil"]
io_EOF == [e |-> "EOF"]
ReadErr == [e |-> "read error"]
ErrUnexpected(r, pos) == [e |-> "unexpected character", ch |-> r, offset |-> pos]
ErrLquote(pos) == [e |-> "expected lquote", offset |-> pos]

\* ------------------------------------------------------------------ runes
\* unicode.IsLetter and unicode.IsDigit on the model's runes. "U+00E9" is a
\* two-byte letter and "U+00A7" a two-byte rune that starts no token.
Letters ==
    {"a","b","c","d","e","f","g","h","i","l","n","o","r","s","t","u","v","x",
     "y","z","U+00E9"}
Digits == {"0","1","2","3","4","5","6","7","8","9"}
IsDigit == Digits
isIdent == {"_"} \cup Letters \cup Digits

\* The size ReadRune reports: the bytes of the rune's UTF-8 encoding.
RuneSize(r) == IF r \in {"U+00E9", "U+00A7"} THEN 2 ELSE 1

\* ------------------------------------------------------------------ lexer
\* The element of a set of one element.
The(S) == CHOOSE v \in S : TRUE

readRune(l) ==
    IF l.rd < Len(input)
    THEN LET r == input[l.rd + 1]
             size == RuneSize(r)
         IN  [l |-> [rd |-> l.rd + 1, pos |-> l.pos + size, lastRuneSize |-> size],
              r |-> r, err |-> Nil]
    ELSE [l |-> [l EXCEPT !.lastRuneSize = 0], r |-> "", err |-> rerr]

unreadRune(l) ==
    [rd |-> IF l.lastRuneSize > 0 THEN l.rd - 1 ELSE l.rd,
     pos |-> IF l.lastRuneSize > 0 THEN l.pos - l.lastRuneSize ELSE l.pos,
     lastRuneSize |-> -1]

\* The first index after rd at which delim stands, or 0.
RECURSIVE IndexFrom(_, _)
IndexFrom(k, delim) ==
    IF k > Len(input) THEN 0
    ELSE IF input[k] = delim THEN k
    ELSE IndexFrom(k + 1, delim)

\* bufio's ReadString: through the delimiter, or all that is left and the
\* reader's error. pos is left as it is.
readString(l, delim) ==
    LET j == IndexFrom(l.rd + 1, delim) IN
    IF j > 0
    THEN [l |-> [l EXCEPT !.rd = j, !.lastRuneSize = -1],
          s |-> SubSeq(input, l.rd + 1, j), err |-> Nil]
    ELSE [l |-> [l EXCEPT !.rd = Len(input), !.lastRuneSize = -1],
          s |-> SubSeq(input, l.rd + 1, Len(input)), err |-> rerr]

\* A function that calls others is written as a chain of operators, one per
\* call it makes: f_x is f from the point where the result x of that call is
\* known. The result of a call is bound as the one element of a set, which
\* gives it a value before the rest of the function uses it.
RECURSIVE stringLoop(_, _, _)
stringLoop_rr(rr, b, accept) ==
    IF rr.err = io_EOF THEN [l |-> rr.l, s |-> b, err |-> Nil]
    ELSE IF rr.err # Nil THEN [l |-> rr.l, s |-> <<>>, err |-> rr.err]
    ELSE IF rr.r \notin accept THEN [l |-> unreadRune(rr.l), s |-> b, err |-> Nil]
    ELSE stringLoop(rr.l, Append(b, rr.r), accept)
stringLoop(l, b, accept) == The({stringLoop_rr(res, b, accept) : res \in {readRune(l)}})

string(l, accept) == stringLoop(l, <<>>, accept)

\* number, quoted, keywordOrIdent and next give the lexer after the call, the
\* item sent (NoItem: none) and the values returned.
number_sr(sr) ==
    IF sr.err # Nil THEN [l |-> sr.l, item |-> NoItem, more |-> TRUE, err |-> sr.err]
    ELSE [l |-> sr.l, item |-> item(itemNumber, sr.s), more |-> TRUE, err |-> Nil]
number(l) == The({number_sr(res) : res \in {string(l, IsDigit)}})

quoted_sr(sr) ==
    IF sr.err # Nil THEN [l |-> sr.l, item |-> NoItem, more |-> TRUE, err |-> sr.err]
    ELSE [l |-> sr.l, item |-> item(itemString, SubSeq(sr.s, 1, Len(sr.s) - 1)),
          more |-> TRUE, err |-> Nil]
quoted_rr(rr) ==
    IF rr.err # Nil THEN [l |-> rr.l, item |-> NoItem, more |-> TRUE, err |-> rr.err]
    ELSE IF rr.r # "\"" THEN
        [l |-> rr.l, item |-> NoItem, more |-> TRUE, err |-> ErrLquote(rr.l.pos)]
    ELSE The({quoted_sr(res) : res \in {readString(rr.l, "\"")}})
quoted(l) == The({quoted_rr(res) : res \in {readRune(l)}})

keywordOrIdent_sr(sr) ==
    IF sr.err # Nil THEN [l |-> sr.l, item |-> NoItem, more |-> TRUE, err |-> sr.err]
    ELSE [l |-> sr.l,
          item |-> item(IF sr.s \in Keywords THEN itemKeyword ELSE itemIdent, sr.s),
          more |-> TRUE, err |-> Nil]
keywordOrIdent(l) == The({keywordOrIdent_sr(res) : res \in {string(l, isIdent)}})

Punct(r) ==
    CASE r = "(" -> itemLparen
      [] r = ")" -> itemRparen
      [] r = ":" -> itemColon
      [] r = ";" -> itemSemi
      [] r = "," -> itemComma
      [] r = "=" -> itemEq
      [] OTHER -> itemOp

next_rr(rr) ==
    IF rr.err = io_EOF THEN
        [l |-> rr.l, item |-> item(itemEOF, <<>>), more |-> FALSE, err |-> Nil]
    ELSE IF rr.err # Nil THEN
        [l |-> rr.l, item |-> NoItem, more |-> TRUE, err |-> rr.err]
    ELSE IF rr.r \in {"(", ")", ":", ";", ",", "=", "+", "-", "<", ">"} THEN
        [l |-> rr.l, item |-> item(Punct(rr.r), <<rr.r>>), more |-> TRUE, err |-> Nil]
    ELSE IF rr.r = "\"" THEN The({quoted(res) : res \in {unreadRune(rr.l)}})
    ELSE IF rr.r \in {"\n", "\t", " ", "\r"} THEN
        [l |-> rr.l, item |-> NoItem, more |-> TRUE, err |-> Nil]
    ELSE IF rr.r \in IsDigit THEN The({number(res) : res \in {unreadRune(rr.l)}})
    ELSE IF rr.r \in isIdent THEN The({keywordOrIdent(res) : res \in {unreadRune(rr.l)}})
    ELSE [l |-> rr.l, item |-> NoItem, more |-> TRUE,
          err |-> ErrUnexpected(rr.r, rr.l.pos)]
next(l) == The({next_rr(res) : res \in {readRune(l)}})

\* -------------------------------------------------------------------- AST
TypeUnit == 0
TypeBool == 1
TypeInt == 2
TypeFloat == 3
TypeString == 4

BinOpMinus == 0
BinOpPlus == 1
BinOpGt == 2
BinOpLt == 3
BinOpFby == 4

ExprCall(name, args) == [k |-> "Call", Name |-> name, Args |-> args]
\* ExprConst{Value}: T is the dynamic type of Value, held in I, B or S.
ExprConstInt(i) == [k |-> "Const", T |-> "int", I |-> i, B |-> FALSE, S |-> <<>>]
ExprConstBool(b) == [k |-> "Const", T |-> "bool", I |-> 0, B |-> b, S |-> <<>>]
ExprConstString(s) == [k |-> "Const", T |-> "string", I |-> 0, B |-> FALSE, S |-> s]
ExprVar(name) == [k |-> "Var", Name |-> name]
ExprTuple(l) == [k |-> "Tuple", Elems |-> l]
ExprBinOp(op, l, r) == [k |-> "BinOp", Op |-> op, Left |-> l, Right |-> r]
ExprIf(c, b, e) == [k |-> "If", Cond |-> c, Body |-> b, Else |-> e]
Assign(dst, body) == [Dst |-> dst, Body |-> body]
Node(name, inp, outp, loc, body) ==
    [Name |-> name, InParams |-> inp, OutParams |-> outp, LocalParams |-> loc,
     Body |-> body]
\* A map[string]Type is a function from names; this is the empty (or nil) map.
EmptyMap == <<>>

\* ----------------------------------------------------------------- parser
\* The parser p: toks, the items the channel delivers; i, how many of them
\* have been accepted; cur, whether p.cur holds an item (toks[i+1]); starved,
\* whether peek asked for an item beyond toks; panic, the message of a panic.
NewParser(toks) ==
    [toks |-> toks, i |-> 0, cur |-> FALSE, starved |-> FALSE, panic |-> ""]

\* What stands for the item not yet delivered: it matches no item type.
StarveItem == [typ |-> -2, value |-> <<>>]

ErrToken(t, it) == [e |-> "expected token", want |-> t, got |-> it]
ErrKeywordItem(kw, it) == [e |-> "expected keyword, got item", wantkw |-> kw, got |-> it]
ErrKeyword(kw, s) == [e |-> "expected keyword", wantkw |-> kw, gots |-> s]
ErrType(s) == [e |-> "expected a type", gots |-> s]
ErrDuplicate(name) == [e |-> "duplicate parameter name", name |-> name]
ErrExpr(it) == [e |-> "expected an expression", got |-> it]
ErrNoOut == [e |-> "doesn't have any out parameter"]
ErrAtoi(s) == [e |-> "strconv.Atoi: value out of range", gots |-> s]
Panic(msg) == [e |-> "panic", msg |-> msg]

cur(p) == IF p.i + 1 <= Len(p.toks) THEN p.toks[p.i + 1] ELSE StarveItem

peek(p) ==
    IF p.cur THEN p
    ELSE IF p.i + 1 <= Len(p.toks) THEN [p EXCEPT !.cur = TRUE]
    ELSE [p EXCEPT !.cur = TRUE, !.starved = TRUE]

accept(p) ==
    IF ~p.cur THEN [p EXCEPT !.panic = "accepted a nil item"]
    ELSE [p EXCEPT !.i = @ + 1, !.cur = FALSE]

peekItem_it(p1, t, it) ==
    IF it.typ # t THEN [p |-> p1, err |-> ErrToken(t, it), val |-> <<>>]
    ELSE [p |-> p1, err |-> Nil, val |-> it.value]
peekItem_p(p1, t) == peekItem_it(p1, t, cur(p1))
peekItem(p, t) == The({peekItem_p(res, t) : res \in {peek(p)}})

acceptItem_r(r) == IF r.err # Nil THEN r ELSE [r EXCEPT !.p = accept(r.p)]
acceptItem(p, t) == The({acceptItem_r(res) : res \in {peekItem(p, t)}})

acceptKeyword_r(r, keyword) ==
    IF r.err # Nil THEN [p |-> r.p, err |-> ErrKeywordItem(keyword, cur(r.p))]
    ELSE IF r.val # keyword THEN [p |-> r.p, err |-> ErrKeyword(keyword, r.val)]
    ELSE [p |-> accept(r.p), err |-> Nil]
acceptKeyword(p, keyword) == The({acceptKeyword_r(res, keyword) : res \in {peekItem(p, itemKeyword)}})

typ_r(r) ==
    IF r.err # Nil THEN [p |-> r.p, err |-> r.err, val |-> 0]
    ELSE IF r.val = keywordUnit THEN [p |-> r.p, err |-> Nil, val |-> TypeUnit]
    ELSE IF r.val = keywordBool THEN [p |-> r.p, err |-> Nil, val |-> TypeBool]
    ELSE IF r.val = keywordFloat THEN [p |-> r.p, err |-> Nil, val |-> TypeFloat]
    ELSE IF r.val = keywordInt THEN [p |-> r.p, err |-> Nil, val |-> TypeInt]
    ELSE IF r.val = keywordString THEN [p |-> r.p, err |-> Nil, val |-> TypeString]
    ELSE [p |-> r.p, err |-> ErrType(r.val), val |-> 0]
typ(p) == The({typ_r(res) : res \in {acceptItem(p, itemKeyword)}})

\* The first loop of param: names separated by commas.
RECURSIVE paramNames(_, _)
paramNames_comma(c, names) ==
    IF c.err # Nil THEN [p |-> c.p, names |-> names] ELSE paramNames(c.p, names)
paramNames_name(r, names) ==
    IF r.err # Nil THEN [p |-> r.p, names |-> names]
    ELSE The({paramNames_comma(res, Append(names, r.val)) : res \in {acceptItem(r.p, itemComma)}})
paramNames(p, names) == The({paramNames_name(res, names) : res \in {acceptItem(p, itemIdent)}})

\* The last loop of param: each name enters params, a known one is an error.
RECURSIVE paramAdd(_, _, _)
paramAdd(params, names, t) ==
    IF names = <<>> THEN [err |-> Nil, params |-> params]
    ELSE IF Head(names) \in DOMAIN params THEN
        [err |-> ErrDuplicate(Head(names)), params |-> params]
    ELSE paramAdd((Head(names) :> t) @@ params, Tail(names), t)

param_add(p, a) == [p |-> p, more |-> TRUE, err |-> a.err, params |-> a.params]
param_type(t, params, names) ==
    IF t.err # Nil THEN [p |-> t.p, more |-> TRUE, err |-> t.err, params |-> params]
    ELSE param_add(t.p, paramAdd(params, names, t.val))
param_colon(c, params, names) ==
    IF c.err # Nil THEN [p |-> c.p, more |-> TRUE, err |-> c.err, params |-> params]
    ELSE The({param_type(res, params, names) : res \in {typ(c.p)}})
param_names(ns, params) ==
    IF Len(ns.names) = 0 THEN [p |-> ns.p, more |-> FALSE, err |-> Nil, params |-> params]
    ELSE The({param_colon(res, params, ns.names) : res \in {acceptItem(ns.p, itemColon)}})
param(p, params) == The({param_names(res, params) : res \in {paramNames(p, <<>>)}})

RECURSIVE paramListLoop(_, _)
paramList_semi(s, params) ==
    IF s.err # Nil THEN [p |-> s.p, err |-> Nil, val |-> params]
    ELSE paramListLoop(s.p, params)
paramList_param(r) ==
    IF r.err # Nil THEN [p |-> r.p, err |-> r.err, val |-> EmptyMap]
    ELSE IF ~r.more THEN [p |-> r.p, err |-> Nil, val |-> r.params]
    ELSE The({paramList_semi(res, r.params) : res \in {acceptItem(r.p, itemSemi)}})
paramListLoop(p, params) == The({paramList_param(res) : res \in {param(p, params)}})
paramList(p) == paramListLoop(p, EmptyMap)

\* strconv.Atoi on a run of digits. The model's numbers have at most
\* MaxAtoiDigits digits, which is where Atoi cannot fail.
MaxAtoiDigits == 9
DigitVal(c) ==
    CASE c = "0" -> 0 [] c = "1" -> 1 [] c = "2" -> 2 [] c = "3" -> 3
      [] c = "4" -> 4 [] c = "5" -> 5 [] c = "6" -> 6 [] c = "7" -> 7
      [] c = "8" -> 8 [] OTHER -> 9
RECURSIVE AtoiLoop(_, _)
AtoiLoop(s, n) == IF s = <<>> THEN n ELSE AtoiLoop(Tail(s), 10 * n + DigitVal(Head(s)))
Atoi(s) ==
    IF Len(s) > MaxAtoiDigits THEN [err |-> ErrAtoi(s), val |-> 0]
    ELSE [err |-> Nil, val |-> AtoiLoop(s, 0)]

NoExpr == [k |-> "nil"]
Ok(p, v) == [p |-> p, err |-> Nil, val |-> v]
Fail(p, err) == [p |-> p, err |-> err, val |-> NoExpr]

RECURSIVE expr(_), exprList(_, _), tupleLoop(_, _)

\* The loop of exprList, l being the expressions so far.
exprList_comma(c, l) ==
    IF c.err # Nil THEN [p |-> c.p, err |-> Nil, val |-> l] ELSE exprList(c.p, l)
exprList_expr(r, l) ==
    IF r.err # Nil THEN [p |-> r.p, err |-> r.err, val |-> <<>>]
    ELSE The({exprList_comma(res, Append(l, r.val)) : res \in {acceptItem(r.p, itemComma)}})
exprList(p, l) == The({exprList_expr(res, l) : res \in {expr(p)}})

\* The loop of exprMember after "(" e ",": the further elements of the tuple.
tupleLoop_comma(c, l) ==
    IF c.err # Nil THEN [p |-> c.p, err |-> Nil, val |-> l] ELSE tupleLoop(c.p, l)
tupleLoop_expr(r, l) ==
    IF r.err # Nil THEN [p |-> r.p, err |-> r.err, val |-> <<>>]
    ELSE The({tupleLoop_comma(res, Append(l, r.val)) : res \in {acceptItem(r.p, itemComma)}})
tupleLoop(p, l) == The({tupleLoop_expr(res, l) : res \in {expr(p)}})

\* exprMember after "(": a tuple, or one expression, returned as it is.
exprParen_rparen(rp, l) ==
    IF rp.err # Nil THEN Fail(rp.p, rp.err) ELSE Ok(rp.p, ExprTuple(l))
exprParen_tuple(t) ==
    IF t.err # Nil THEN Fail(t.p, t.err)
    ELSE The({exprParen_rparen(res, t.val) : res \in {acceptItem(t.p, itemRparen)}})
exprParen_comma(c, e) ==
    IF c.err = Nil THEN The({exprParen_tuple(res) : res \in {tupleLoop(c.p, <<e>>)}})
    ELSE Ok(c.p, e)
exprParen_expr(r) ==
    IF r.err # Nil THEN Fail(r.p, r.err)
    ELSE The({exprParen_comma(res, r.val) : res \in {acceptItem(r.p, itemComma)}})
exprParen(p) == The({exprParen_expr(res) : res \in {expr(p)}})

\* exprMember after an identifier: a call, or a variable.
exprIdent_rparen(rp, name, args) ==
    IF rp.err # Nil THEN Fail(rp.p, rp.err) ELSE Ok(rp.p, ExprCall(name, args))
exprIdent_args(args, name) ==
    IF args.err # Nil THEN Fail(args.p, args.err)
    ELSE The({exprIdent_rparen(res, name, args.val) : res \in {acceptItem(args.p, itemRparen)}})
exprIdent_lparen(cl, name) ==
    IF cl.err = Nil THEN The({exprIdent_args(res, name) : res \in {exprList(cl.p, <<>>)}})
    ELSE Ok(cl.p, ExprVar(name))
exprIdent(p, name) == The({exprIdent_lparen(res, name) : res \in {acceptItem(p, itemLparen)}})

\* exprMember from the number on: the constants.
exprConst_string(st) ==
    IF st.err = Nil THEN Ok(st.p, ExprConstString(st.val))
    ELSE Fail(st.p, ErrExpr(cur(st.p)))
exprConst_false(kf) ==
    IF kf.err = Nil THEN Ok(kf.p, ExprConstBool(FALSE))
    ELSE The({exprConst_string(res) : res \in {acceptItem(kf.p, itemString)}})
exprConst_true(kt) ==
    IF kt.err = Nil THEN Ok(kt.p, ExprConstBool(TRUE))
    ELSE The({exprConst_false(res) : res \in {acceptKeyword(kt.p, keywordFalse)}})
exprConst_atoi(p, a) ==
    IF a.err # Nil THEN Fail(p, a.err) ELSE Ok(p, ExprConstInt(a.val))
exprConst_number(num) ==
    IF num.err = Nil THEN exprConst_atoi(num.p, Atoi(num.val))
    ELSE The({exprConst_true(res) : res \in {acceptKeyword(num.p, keywordTrue)}})
exprConst(p) == The({exprConst_number(res) : res \in {acceptItem(p, itemNumber)}})

exprMember_ident(id) ==
    IF id.err = Nil THEN exprIdent(id.p, id.val) ELSE exprConst(id.p)
exprMember_lparen(lp) ==
    IF lp.err = Nil THEN exprParen(lp.p)
    ELSE The({exprMember_ident(res) : res \in {acceptItem(lp.p, itemIdent)}})
exprMember(p) == The({exprMember_lparen(res) : res \in {acceptItem(p, itemLparen)}})

\* expr after the operator item s: the right operand and the operation.
exprOp_right(e2, e1, s) ==
    IF e2.err # Nil THEN e2
    ELSE IF s = <<"+">> THEN Ok(e2.p, ExprBinOp(BinOpPlus, e1, e2.val))
    ELSE IF s = <<"-">> THEN Ok(e2.p, ExprBinOp(BinOpMinus, e1, e2.val))
    ELSE Fail(e2.p, Panic("unknown binary operation"))
exprOp(p, e1, s) == The({exprOp_right(res, e1, s) : res \in {expr(p)}})

\* expr after "fby": the right operand.
exprFby_right(e2, e1) ==
    IF e2.err # Nil THEN e2 ELSE Ok(e2.p, ExprBinOp(BinOpFby, e1, e2.val))
exprFby(p, e1) == The({exprFby_right(res, e1) : res \in {expr(p)}})

expr_op(op, e1) ==
    IF op.err = Nil THEN exprOp(op.p, e1, op.val) ELSE Ok(op.p, e1)
expr_fby(fby, e1) ==
    IF fby.err = Nil THEN exprFby(fby.p, e1)
    ELSE The({expr_op(res, e1) : res \in {acceptItem(fby.p, itemOp)}})
expr_left(e1) ==
    IF e1.err # Nil THEN e1
    ELSE The({expr_fby(res, e1.val) : res \in {acceptKeyword(e1.p, keywordFby)}})
expr(p) == The({expr_left(res) : res \in {exprMember(p)}})

NoAssign == [Dst |-> <<>>, Body |-> NoExpr]
FailAssign(p, err) == [p |-> p, err |-> err, val |-> NoAssign]

\* The loop of assign after "(": the destination names.
RECURSIVE assignDst(_, _)
assignDst_comma(c, dst) ==
    IF c.err # Nil THEN [p |-> c.p, err |-> Nil, val |-> dst] ELSE assignDst(c.p, dst)
assignDst_name(r, dst) ==
    IF r.err # Nil THEN [p |-> r.p, err |-> r.err, val |-> <<>>]
    ELSE The({assignDst_comma(res, Append(dst, r.val)) : res \in {acceptItem(r.p, itemComma)}})
assignDst(p, dst) == The({assignDst_name(res, dst) : res \in {acceptItem(p, itemIdent)}})

\* The rest of assign once dst is known: "=" and the body.
assignBody_expr(e, dst) ==
    IF e.err # Nil THEN FailAssign(e.p, e.err)
    ELSE [p |-> e.p, err |-> Nil, val |-> Assign(dst, e.val)]
assignBody_eq(eq, dst) ==
    IF eq.err # Nil THEN FailAssign(eq.p, eq.err) ELSE The({assignBody_expr(res, dst) : res \in {expr(eq.p)}})
assignBody(p, dst) == The({assignBody_eq(res, dst) : res \in {acceptItem(p, itemEq)}})

\* val = NoAssign with err = Nil is the (nil, nil) return: no equation here.
assign_rparen(rp, dst) ==
    IF rp.err # Nil THEN FailAssign(rp.p, rp.err) ELSE assignBody(rp.p, dst)
assign_dst(d) ==
    IF d.err # Nil THEN FailAssign(d.p, d.err)
    ELSE The({assign_rparen(res, d.val) : res \in {acceptItem(d.p, itemRparen)}})
assign_name(name) ==
    IF name.err # Nil THEN [p |-> name.p, err |-> Nil, val |-> NoAssign]
    ELSE assignBody(name.p, <<name.val>>)
assign_lparen(lp) ==
    IF lp.err = Nil THEN The({assign_dst(res) : res \in {assignDst(lp.p, <<>>)}})
    ELSE The({assign_name(res) : res \in {acceptItem(lp.p, itemIdent)}})
assign(p) == The({assign_lparen(res) : res \in {acceptItem(p, itemLparen)}})

RECURSIVE assignListLoop(_, _)
assignList_semi(s, l) ==
    IF s.err # Nil THEN [p |-> s.p, err |-> Nil, val |-> l] ELSE assignListLoop(s.p, l)
assignList_assign(a, l) ==
    IF a.err # Nil THEN [p |-> a.p, err |-> a.err, val |-> <<>>]
    ELSE IF a.val = NoAssign THEN [p |-> a.p, err |-> Nil, val |-> l]
    ELSE The({assignList_semi(res, Append(l, a.val)) : res \in {acceptItem(a.p, itemSemi)}})
assignListLoop(p, l) == The({assignList_assign(res, l) : res \in {assign(p)}})
assignList(p) == assignListLoop(p, <<>>)

NoNode == [Name |-> <<>>]
FailNode(p, err) == [p |-> p, err |-> err, val |-> NoNode]

\* node, from its end to its start. n holds what has been parsed of the node.
node_tel(kt, n) ==
    IF kt.err # Nil THEN FailNode(kt.p, kt.err) ELSE [p |-> kt.p, err |-> Nil, val |-> n]
node_body(body, n) ==
    IF body.err # Nil THEN FailNode(body.p, body.err)
    ELSE The({node_tel(res, [n EXCEPT !.Body = body.val]) : res \in {acceptKeyword(body.p, keywordTel)}})
node_let(kl, n) ==
    IF kl.err # Nil THEN FailNode(kl.p, kl.err) ELSE The({node_body(res, n) : res \in {assignList(kl.p)}})
node_locals(localParams, n) ==
    IF localParams.err # Nil THEN FailNode(localParams.p, localParams.err)
    ELSE The({node_let(res,
                  [n EXCEPT !.LocalParams = localParams.val]) : res \in {acceptKeyword(localParams.p, keywordLet)}})
node_var(kv, n) ==
    IF kv.err = Nil THEN The({node_locals(res, n) : res \in {paramList(kv.p)}})
    ELSE The({node_let(res, n) : res \in {acceptKeyword(kv.p, keywordLet)}})
node_semi(semi, n) ==
    IF semi.err # Nil THEN FailNode(semi.p, semi.err)
    ELSE The({node_var(res, n) : res \in {acceptKeyword(semi.p, keywordVar)}})
node_rparen2(rp, n) ==
    IF rp.err # Nil THEN FailNode(rp.p, rp.err)
    ELSE The({node_semi(res, n) : res \in {acceptItem(rp.p, itemSemi)}})
node_out(outParams, n) ==
    IF outParams.err # Nil THEN FailNode(outParams.p, outParams.err)
    ELSE IF Cardinality(DOMAIN outParams.val) = 0 THEN FailNode(outParams.p, ErrNoOut)
    ELSE The({node_rparen2(res,
                      [n EXCEPT !.OutParams = outParams.val]) : res \in {acceptItem(outParams.p, itemRparen)}})
node_lparen2(lp, n) ==
    IF lp.err # Nil THEN FailNode(lp.p, lp.err) ELSE The({node_out(res, n) : res \in {paramList(lp.p)}})
node_returns(kr, n) ==
    IF kr.err # Nil THEN FailNode(kr.p, kr.err)
    ELSE The({node_lparen2(res, n) : res \in {acceptItem(kr.p, itemLparen)}})
node_rparen(rp, n) ==
    IF rp.err # Nil THEN FailNode(rp.p, rp.err)
    ELSE The({node_returns(res, n) : res \in {acceptKeyword(rp.p, keywordReturns)}})
node_in(inParams, n) ==
    IF inParams.err # Nil THEN FailNode(inParams.p, inParams.err)
    ELSE The({node_rparen(res,
                     [n EXCEPT !.InParams = inParams.val]) : res \in {acceptItem(inParams.p, itemRparen)}})
node_lparen(lp, n) ==
    IF lp.err # Nil THEN FailNode(lp.p, lp.err) ELSE The({node_in(res, n) : res \in {paramList(lp.p)}})
node_name(name) ==
    IF name.err # Nil THEN FailNode(name.p, name.err)
    ELSE The({node_lparen(res,
                     Node(name.val, EmptyMap, EmptyMap, EmptyMap, <<>>)) : res \in {acceptItem(name.p, itemLparen)}})
node_node(kn) ==
    IF kn.err # Nil THEN FailNode(kn.p, kn.err)
    ELSE The({node_name(res) : res \in {acceptItem(kn.p, itemIdent)}})
node(p) == The({node_node(res) : res \in {acceptKeyword(p, keywordNode)}})

\* The nil *File.
NilFile == [Nodes |-> <<>>, nil |-> TRUE]
File(nodes) == [Nodes |-> nodes, nil |-> FALSE]

RECURSIVE parseLoop(_, _)
parse_eof(eof, nodes) ==
    IF eof.err = Nil THEN [p |-> eof.p, err |-> Nil, val |-> File(nodes)]
    ELSE parseLoop(eof.p, nodes)
parse_node(n, nodes) ==
    IF n.err # Nil THEN [p |-> n.p, err |-> n.err, val |-> NilFile]
    ELSE The({parse_eof(res, Append(nodes, n.val)) : res \in {acceptItem(n.p, itemEOF)}})
parseLoop(p, nodes) == The({parse_node(res, nodes) : res \in {node(p)}})
parse(p) == parseLoop(p, <<>>)

\* The parser goroutine's run of p.parse() on the items toks: "starved" when
\* it is waiting in peek for the next item, "panic" when it panicked, "done"
\* when p.parse() returned (err, val).
ParserStatus(r) ==
    [status |-> IF r.p.starved THEN "starved"
                ELSE IF r.err.e = "panic" \/ r.p.panic # "" THEN "panic"
                ELSE "done",
     err |-> r.err, val |-> r.val, p |-> r.p]

ParserRun(toks) == The({ParserStatus(res) : res \in {parse(NewParser(toks))}})

\* ------------------------------------------------------------ source texts
RECURSIVE Cat(_)
Cat(ss) == IF ss = <<>> THEN <<>> ELSE Head(ss) \o Cat(Tail(ss))

SP == <<" ">>
\* "node f() returns ("
SrcHead == Cat(<<keywordNode, SP, <<"f", "(", ")">>, keywordReturns, <<"(">>>>)
\* "x:int);"
SrcOut == Cat(<<<<"x", ":">>, keywordInt, <<")", ";">>>>)
\* "node f() returns (x:int);let x=" body "tel"
SrcNode(body) == Cat(<<SrcHead, SrcOut, keywordLet, SP, body, keywordTel>>)

SrcBases ==
    { SrcNode(<<"x", "=", "1", ";">>),                \* a node that parses
      SrcNode(<<>>),                                  \* no equation
      SrcNode(<<"x", "=", "(", "1", ")", ";">>),      \* a grouped expression
      SrcNode(<<"x", "=", "1", "<", "2", ";">>),      \* a comparison
      SrcNode(<<>>) \o <<"\n", "@">>,                 \* a bad rune after a node
      SrcNode(<<"x", "=", "1", "<", "2", ";">>) \o <<"@">>,  \* both failures
      Cat(<<SrcHead, <<")", ";">>, keywordLet, SP, keywordTel>>),  \* no output
      <<>>,                                           \* the empty text
      keywordTel,                                     \* wrong from the first item
      Cat(<<keywordNode, SP, <<"f", "@", "(">>>>),    \* a bad rune
      <<"\"", "s", "\"", "U+00E9", " ", "U+00A7">>,   \* a string, then a bad rune
      Cat(<<keywordNode, <<"\"", "a", "b">>>>) }      \* an unterminated string

RECURSIVE SrcTail(_)
SrcTail(k) == IF k = 0 THEN <<>> ELSE <<";">> \o SrcTail(k - 1)

Inputs == { b \o SrcTail(k) : b \in SrcBases, k \in 0..MaxTail }

\* ------------------------------------------------------------------- Parse
ChanCap == 2
DoneCap == 1

ParserIdle ==
    ptoks = <<>> /\ pmode = "off" /\ pchain = [ms |-> <<>>, ops |-> <<>>] /\ pout = Nil
CompIdle ==
    /\ file = <<>> /\ cpc = "off" /\ cidx = 0 /\ aidx = 0
    /\ cvars = EmptyMap /\ funcs = EmptyMap /\ cmod = <<>> /\ cerr = Nil

Init ==
    /\ input \in Inputs
    /\ rerr \in {io_EOF, ReadErr}
    /\ lx = [rd |-> 0, pos |-> 0, lastRuneSize |-> 0]
    /\ lexpc = "scan"
    /\ pending = [item |-> NoItem, more |-> TRUE, err |-> Nil]
    /\ lexErr = Nil
    /\ items = <<>> /\ closes = 0 /\ sent = <<>> /\ done = <<>>
    /\ peeked = <<>> /\ parpc = "parse" /\ parFile = NilFile /\ crashed = FALSE
    /\ early = FALSE
    /\ mainpc = "lex" /\ ret = [file |-> NilFile, err |-> Nil]
    /\ ParserIdle /\ CompIdle

LexScan_next(r) ==
    /\ lx' = r.l
    /\ pending' = [item |-> r.item, more |-> r.more, err |-> r.err]
    /\ IF r.item # NoItem THEN lexpc' = "send" /\ UNCHANGED lexErr
       ELSE IF r.err # Nil THEN lexpc' = "close" /\ lexErr' = r.err
       ELSE lexpc' = "scan" /\ UNCHANGED lexErr

\* lex: one call of l.next() up to the item it sends, or to its return.
LexScan ==
    /\ ~crashed /\ lexpc = "scan"
    /\ \E r \in {next(lx)} : LexScan_next(r)
    /\ UNCHANGED <<input, rerr, chanVars, goVars, mainVars, parserVars, compVars>>

\* lex going on after the item of the end of input.
LexSendAndGoOn ==
    /\ ~crashed /\ lexpc = "send"
    /\ Len(items) < ChanCap
    /\ items' = Append(items, pending.item)
    /\ sent' = Append(sent, pending.item)
    /\ lexpc' = "scan"
    /\ UNCHANGED <<input, rerr, lx, pending, lexErr, closes, done, goVars, mainVars,
                   parserVars, compVars>>

\* l.out <- item, then next returns and lex loops or returns.
LexSend ==
    /\ ~crashed /\ lexpc = "send"
    /\ Len(items) < ChanCap
    /\ items' = Append(items, pending.item)
    /\ sent' = Append(sent, pending.item)
    /\ lexpc' = IF pending.more THEN "scan" ELSE "close"
    /\ UNCHANGED <<input, rerr, lx, pending, lexErr, closes, done, goVars, mainVars,
                   parserVars, compVars>>

\* A close(l.out) that is not deferred: only the return of nil reaches it.
LexCloseOnSuccess ==
    /\ ~crashed /\ lexpc = "close"
    /\ closes' = IF lexErr = Nil THEN closes + 1 ELSE closes
    /\ lexpc' = "done"
    /\ UNCHANGED <<input, rerr, lx, pending, lexErr, items, sent, done, goVars,
                   mainVars, parserVars, compVars>>

\* The deferred close(l.out); lex has returned.
LexClose ==
    /\ ~crashed /\ lexpc = "close"
    /\ closes' = closes + 1
    /\ lexpc' = "done"
    /\ UNCHANGED <<input, rerr, lx, pending, lexErr, items, sent, done, goVars,
                   mainVars, parserVars, compVars>>

\* A channel that hands over its newest item first.
ParserPeekNewest ==
    /\ ~crashed /\ parpc = "parse"
    /\ ParserRun(peeked).status = "starved"
    /\ \/ /\ items # <<>>
          /\ peeked' = Append(peeked, items[Len(items)])
          /\ items' = SubSeq(items, 1, Len(items) - 1)
       \/ /\ items = <<>> /\ closes > 0
          /\ peeked' = Append(peeked, ZeroItem)
          /\ UNCHANGED items
    /\ UNCHANGED <<lexVars, closes, sent, done, parpc, parFile, crashed, early,
                   mainVars, parserVars, compVars>>

\* peek with p.cur == nil: it := <-p.in.
ParserPeek ==
    /\ ~crashed /\ parpc = "parse"
    /\ ParserRun(peeked).status = "starved"
    /\ \/ /\ items # <<>>
          /\ peeked' = Append(peeked, Head(items))
          /\ items' = Tail(items)
       \/ /\ items = <<>> /\ closes > 0
          /\ peeked' = Append(peeked, ZeroItem)
          /\ UNCHANGED items
    /\ UNCHANGED <<lexVars, closes, sent, done, parpc, parFile, crashed, early,
                   mainVars, parserVars, compVars>>

ParserFinish_run(r) ==
    /\ r.status # "starved"
    /\ IF r.status = "panic"
       THEN crashed' = TRUE /\ UNCHANGED <<parpc, parFile, done, early>>
       ELSE /\ Len(done) < DoneCap
            /\ parFile' = r.val
            /\ done' = Append(done, r.err)
            /\ parpc' = "drain"
            /\ early' = (lexpc \in {"scan", "send"})
            /\ UNCHANGED crashed

\* f, err = p.parse(); done <- err. A panic of the parser ends the program.
ParserFinish ==
    /\ ~crashed /\ parpc = "parse"
    /\ \E r \in {ParserRun(peeked)} : ParserFinish_run(r)
    /\ UNCHANGED <<lexVars, items, closes, sent, peeked, mainVars, parserVars, compVars>>

\* for range items {}: one item received and dropped.
ParserDrain ==
    /\ ~crashed /\ parpc = "drain"
    /\ items # <<>>
    /\ items' = Tail(items)
    /\ UNCHANGED <<lexVars, closes, sent, done, goVars, mainVars, parserVars, compVars>>

\* for range items {} ends: the channel is closed and empty.
ParserExit ==
    /\ ~crashed /\ parpc = "drain"
    /\ items = <<>> /\ closes > 0
    /\ parpc' = "exited"
    /\ UNCHANGED <<lexVars, chanVars, peeked, parFile, crashed, early, mainVars,
                   parserVars, compVars>>

\* A Parse that runs lex beside itself and does not wait for its return.
ParseBesideLex ==
    /\ ~crashed /\ mainpc = "lex"
    /\ IF lexErr # Nil
       THEN mainpc' = "returned" /\ ret' = [file |-> NilFile, err |-> lexErr]
       ELSE mainpc' = "recv" /\ UNCHANGED ret
    /\ UNCHANGED <<lexVars, chanVars, goVars, parserVars, compVars>>

\* if err := l.lex(); err != nil { return nil, err }
ParseAfterLex ==
    /\ ~crashed /\ mainpc = "lex" /\ lexpc = "done"
    /\ IF lexErr # Nil
       THEN mainpc' = "returned" /\ ret' = [file |-> NilFile, err |-> lexErr]
       ELSE mainpc' = "recv" /\ UNCHANGED ret
    /\ UNCHANGED <<lexVars, chanVars, goVars, parserVars, compVars>>

\* if err := <-done; err != nil { return nil, err }; return f, nil
ParseRecvDone ==
    /\ ~crashed /\ mainpc = "recv"
    /\ done # <<>>
    /\ done' = Tail(done)
    /\ ret' = IF Head(done) # Nil THEN [file |-> NilFile, err |-> Head(done)]
              ELSE [file |-> parFile, err |-> Nil]
    /\ mainpc' = "returned"
    /\ UNCHANGED <<lexVars, items, closes, sent, goVars, parserVars, compVars>>

LexerNext == LexScan \/ LexSend \/ LexClose
ParserNext == ParserPeek \/ ParserFinish \/ ParserDrain \/ ParserExit
MainNext == ParseAfterLex \/ ParseRecvDone

Next == LexerNext \/ ParserNext \/ MainNext

Spec == Init /\ [][Next]_vars

\* Every goroutine that can run does run.
FairSpec == Spec /\ WF_vars(LexerNext) /\ WF_vars(ParserNext) /\ WF_vars(MainNext)

\* ------------------------------------------------------ properties of Parse
Last(s) == s[Len(s)]
Min(a, b) == IF a <= b THEN a ELSE b
CountEOF(s) == Cardinality({i \in 1..Len(s) : s[i].typ = itemEOF})

RECURSIVE BytesBefore(_)
\* The number of bytes of the first k runes of the input.
BytesBefore(k) == IF k = 0 THEN 0 ELSE BytesBefore(k - 1) + RuneSize(input[k])

\* C1: for every finite input Parse returns, lex is not blocked for ever on a
\* send and the parser goroutine is not blocked for ever on a receive: each
\* of the three reaches its end.
C1_ParseReturns ==
    /\ <>(mainpc = "returned")
    /\ <>(lexpc = "done")
    /\ <>(parpc = "exited")

\* C2: on every exit of lex (end of input, unexpected character, unterminated
\* string, read error) the items channel has been closed exactly once, it is
\* never closed twice, and nothing is sent on it once it is closed.
C2_ClosedOnceOnEveryExit ==
    /\ [](closes <= 1 /\ (lexpc = "done" <=> closes = 1))
    /\ [][closes > 0 => sent' = sent]_vars

\* lex has returned an error after sending items.
C2_ErrorExit == lexpc = "done" /\ lexErr # Nil /\ closes = 1 /\ sent # <<>>

\* C3, as claimed: the items peek received are a prefix of the items sent.
C3_PeekedIsPrefixOfSent ==
    /\ Len(peeked) <= Len(sent)
    /\ peeked = SubSeq(sent, 1, Len(peeked))

\* C3, amended: the items peek received are a prefix of the items sent, in
\* order, followed by at most one zero item, which peek receives only from
\* the closed and empty channel of a lex that failed.
C3_PeekedIsPrefixThenZero ==
    /\ SubSeq(peeked, 1, Min(Len(peeked), Len(sent)))
         = SubSeq(sent, 1, Min(Len(peeked), Len(sent)))
    /\ Len(peeked) <= Len(sent) + 1
    /\ Len(peeked) = Len(sent) + 1 =>
          /\ Last(peeked) = ZeroItem
          /\ closes = 1 /\ items = <<>> /\ lexErr # Nil

\* peek has received every item sent and then the zero item.
C3_ZeroItemPeeked == Len(peeked) = Len(sent) + 1 /\ Len(sent) > 1

\* C4, as claimed: when p.parse() ended before lex had sent its last item,
\* Parse returns only once the channel is empty and the draining loop has
\* seen it closed.
C4_ReturnsAfterDrain ==
    mainpc = "returned" /\ early => items = <<>> /\ parpc = "exited"

\* C4, amended: Parse returns only once lex has sent its last item and closed
\* the channel, and, when lex did not fail, once p.parse() has ended; the
\* items still in the channel, at most its capacity, are left to the
\* draining loop of the goroutine.
C4_ReturnsAfterLexClosed ==
    mainpc = "returned" =>
        /\ lexpc = "done" /\ closes = 1
        /\ Len(items) <= ChanCap
        /\ lexErr = Nil => parpc \in {"drain", "exited"}

\* Parse has returned, p.parse() had ended early and the loop is still
\* draining items.
C4_ReturnedWhileDraining ==
    mainpc = "returned" /\ early /\ items # <<>> /\ parpc = "drain"

\* C5, as claimed: in every run of lex the items sent end with exactly one
\* itemEOF.
C5_EndsWithOneEOF ==
    lexpc = "done" =>
        sent # <<>> /\ Last(sent).typ = itemEOF /\ CountEOF(sent) = 1

\* C5, amended: a run of lex that returns nil has sent exactly one itemEOF,
\* the last item; a run that returns an error has sent no itemEOF; nothing
\* is sent after the itemEOF, after the error or after lex has returned.
C5_OneEOFUnlessError ==
    /\ [](lexpc = "done" =>
            IF lexErr = Nil
            THEN sent # <<>> /\ Last(sent).typ = itemEOF /\ CountEOF(sent) = 1
            ELSE CountEOF(sent) = 0)
    /\ [][(lexpc = "done" \/ lexErr # Nil \/ CountEOF(sent) > 0) => sent' = sent]_vars

\* lex has returned an error after sending items, none of them an itemEOF.
C5_FailedRunWithoutEOF ==
    lexpc = "done" /\ lexErr # Nil /\ Len(sent) > 1 /\ CountEOF(sent) = 0

\* C10: the error of an unexpected character carries the character and the
\* number of bytes of the input before it.
C10_OffsetOfCharacter ==
    lexErr.e = "unexpected character" =>
        /\ lexErr.ch = input[lx.rd]
        /\ lexErr.offset = BytesBefore(lx.rd - 1)

\* What Parse returns of the parser's run r: its error and no File, or its
\* File.
ParserResult(r) ==
    IF r.err # Nil THEN [file |-> NilFile, err |-> r.err]
    ELSE [file |-> r.val, err |-> Nil]

\* What C15 says of the value Parse returns: the error of lex and a nil
\* File when lex returned an error, by a step that receives nothing from
\* done; the parser's error or File only when lex returned nil.
C15_ReturnsErrorOfLex ==
    /\ [](mainpc = "returned" /\ lexErr # Nil =>
            ret = [file |-> NilFile, err |-> lexErr])
    /\ [](mainpc = "returned" /\ lexErr = Nil =>
            \E r \in {ParserRun(peeked)} :
                r.status = "done" /\ ret = ParserResult(r))
    /\ [][lexErr # Nil /\ mainpc' # mainpc =>
            mainpc = "lex" /\ mainpc' = "returned" /\ done' = done]_vars

\* C15: when lex returned an error, Parse returns, and returns that error
\* and a nil File, without receiving from done, whatever the parser did with
\* its items, the zero items of the closed channel included; what Parse
\* returns is the parser's error or File only when lex returned nil.
C15_LexErrorIsReturned ==
    /\ C15_ReturnsErrorOfLex
    /\ (lexErr # Nil ~> mainpc = "returned")

\* C15 but for the panic of the parser: when lex returned an error, Parse
\* returns it unless the panic has ended the program.
C15_LexErrorIsReturnedUnlessPanic ==
    /\ C15_ReturnsErrorOfLex
    /\ (lexErr # Nil ~> (mainpc = "returned" \/ crashed))

\* Parse has returned the error of lex while the parser, which has read the
\* zero item of the closed channel, has not yet ended.
C15_ReturnedBeforeParserEnded ==
    /\ mainpc = "returned" /\ lexErr # Nil /\ ret.err = lexErr
    /\ parpc = "parse" /\ done = <<>>
    /\ peeked # <<>> /\ Last(peeked) = ZeroItem /\ Len(peeked) = Len(sent) + 1

\* ----------------------------------------------------------------- Compile
\* An IR value: v, the kind of value; t, its type where the code sets one;
\* f, the function it calls (0 is print, i the function of the i-th node of
\* the file, -1 none); n, the number it holds.
Val(v, t, f, n) == [v |-> v, t |-> t, f |-> f, n |-> n]
NoVal == Val("nil", "", -1, 0)

ErrUndefinedNode(name) == [e |-> "undefined node", name |-> name]
ErrUndefinedVar(name) == [e |-> "referring to undefined variable", name |-> name]
ErrCompileNode(name, err) == [e |-> "failed to compile node", node |-> name, cause |-> err]

print == <<"p", "r", "i", "n", "t">>
PrintFunc == 0

c_typ(t) ==
    CASE t = TypeUnit -> "void"
      [] t = TypeBool -> "i1"
      [] t = TypeInt -> "i32"
      [] t = TypeFloat -> "float"
      [] t = TypeString -> "i8*"
      [] OTHER -> "panic: unknown type"

CVal(v) == [err |-> Nil, val |-> v]
CErr(err) == [err |-> err, val |-> NoVal]

RECURSIVE c_expr(_, _, _), c_exprs(_, _, _, _)

\* The loops over e.Args and over the elements of a tuple: each is lowered in
\* order, the first error ends the loop.
c_exprs_r(r, rest, env, fn, acc) ==
    IF r.err # Nil THEN [err |-> r.err, vals |-> <<>>]
    ELSE c_exprs(rest, env, fn, Append(acc, r.val))
c_exprs(es, env, fn, acc) ==
    IF es = <<>> THEN [err |-> Nil, vals |-> acc]
    ELSE c_exprs_r(c_expr(Head(es), env, fn), Tail(es), env, fn, acc)

\* A lowering in two passes: a call of a node the file declares anywhere
\* resolves.
c_call_declared(e, env, fn) ==
    IF e.Name \notin DOMAIN fn \cup {file[j].Name : j \in 1..Len(file)}
    THEN CErr(ErrUndefinedNode(e.Name))
    ELSE CVal(Val("call", "", IF e.Name \in DOMAIN fn THEN fn[e.Name] ELSE PrintFunc,
                  Len(e.Args)))

c_call_args(args, f) ==
    IF args.err # Nil THEN CErr(args.err) ELSE CVal(Val("call", "", f, Len(args.vals)))
c_call(e, env, fn) ==
    IF e.Name \notin DOMAIN fn THEN CErr(ErrUndefinedNode(e.Name))
    ELSE c_call_args(c_exprs(e.Args, env, fn, <<>>), fn[e.Name])

c_const(e) ==
    CASE e.T = "bool" -> CVal(Val("const", "i1", -1, IF e.B THEN 1 ELSE 0))
      [] e.T = "int" -> CVal(Val("const", "i32", -1, e.I))
      [] e.T = "string" -> CVal(Val("getelementptr", "i8*", -1, Len(e.S) + 1))
      [] OTHER -> CErr(Panic("unknown const type"))

\* A lowering that gives a name without a value a placeholder.
c_var_placeholder(e, env) ==
    IF e.Name \notin DOMAIN env THEN CVal(Val("undef", "", -1, 0))
    ELSE CVal(env[e.Name])

c_var(e, env) ==
    IF e.Name \notin DOMAIN env THEN CErr(ErrUndefinedVar(e.Name))
    ELSE CVal(env[e.Name])

c_tuple_values(values) ==
    IF values.err # Nil THEN CErr(values.err)
    ELSE CVal(Val("global undef", "struct", -1, Len(values.vals)))
c_tuple(e, env, fn) == c_tuple_values(c_exprs(e.Elems, env, fn, <<>>))

c_binop_right(right, op) ==
    IF right.err # Nil THEN CErr(right.err)
    ELSE CASE op = BinOpMinus -> CVal(Val("sub", "", -1, 0))
           [] op = BinOpPlus -> CVal(Val("add", "", -1, 0))
           [] op = BinOpGt -> CVal(Val("icmp sgt", "i1", -1, 0))
           [] op = BinOpLt -> CVal(Val("icmp slt", "i1", -1, 0))
           [] op = BinOpFby -> CVal(Val("const", "i32", -1, 0))
           [] OTHER -> CErr(Panic("unknown binary operation"))
c_binop_left(left, e, env, fn) ==
    IF left.err # Nil THEN CErr(left.err)
    ELSE c_binop_right(c_expr(e.Right, env, fn), e.Op)
c_binop(e, env, fn) == c_binop_left(c_expr(e.Left, env, fn), e, env, fn)

c_if_else(els) ==
    IF els.err # Nil THEN CErr(els.err) ELSE CVal(Val("select", "", -1, 0))
c_if_body(body, e, env, fn) ==
    IF body.err # Nil THEN CErr(body.err) ELSE c_if_else(c_expr(e.Else, env, fn))
c_if_cond(cond, e, env, fn) ==
    IF cond.err # Nil THEN CErr(cond.err)
    ELSE c_if_body(c_expr(e.Body, env, fn), e, env, fn)
c_if(e, env, fn) == c_if_cond(c_expr(e.Cond, env, fn), e, env, fn)

\* compiler.expr, with ctx.vars and c.funcs as env and fn.
c_expr(e, env, fn) ==
    CASE e.k = "Call" -> c_call(e, env, fn)
      [] e.k = "Const" -> c_const(e)
      [] e.k = "Var" -> c_var(e, env)
      [] e.k = "Tuple" -> c_tuple(e, env, fn)
      [] e.k = "BinOp" -> c_binop(e, env, fn)
      [] e.k = "If" -> c_if(e, env, fn)
      [] OTHER -> CErr(Panic("unknown expression"))

\* An assign that binds every destination to the value of the body.
c_assign_all(r, a, env) ==
    IF r.err # Nil THEN [err |-> r.err, env |-> env]
    ELSE [err |-> Nil,
          env |-> [d \in {a.Dst[k] : k \in DOMAIN a.Dst} |-> r.val] @@ env]

\* compiler.assign: the error, and ctx.vars after it.
c_assign_v(r, a, env) ==
    IF r.err # Nil THEN [err |-> r.err, env |-> env]
    ELSE [err |-> Nil, env |-> (a.Dst[1] :> r.val) @@ env]
c_assign(a, env, fn) == c_assign_v(c_expr(a.Body, env, fn), a, env)

\* The two loops that open compiler.node: the input parameters, then the
\* output parameters, enter vars.
c_node_vars(n) ==
    [name \in DOMAIN n.InParams \cup DOMAIN n.OutParams |->
        IF name \in DOMAIN n.OutParams
        THEN Val("undef", c_typ(n.OutParams[name]), -1, 0)
        ELSE Val("param", c_typ(n.InParams[name]), -1, 0)]

\* ------------------------------------------------------- the files compiled
\* The size of a file is the number of its nodes and of their equations.
MaxFileSize == 5

nf == <<"f">>
ng == <<"g">>
na == <<"a">>
nx == <<"x">>
ny == <<"y">>
nz == <<"z">>
NodeNames == {nf, ng}

AssignSet ==
    { Assign(<<ny>>, ExprCall(ng, <<ExprConstInt(1)>>)),
      Assign(<<nx>>, ExprVar(ny)),
      Assign(<<ny, nz>>,
             ExprTuple(<<ExprVar(na), ExprCall(print, <<ExprConstString(<<"s">>)>>)>>)),
      Assign(<<nx>>, ExprBinOp(BinOpPlus, ExprCall(nf, <<ExprVar(ny)>>), ExprVar(nz))) }

FileNode(name, body) ==
    Node(name, (na :> TypeInt), (nx :> TypeInt), (ny :> TypeInt) @@ (nz :> TypeInt), body)

\* The sequences of nodes of size at most s.
RECURSIVE NodeSeqs(_)
NodeSeqs(s) ==
    IF s = 0 THEN {<<>>}
    ELSE {<<>>} \cup
         UNION { { <<FileNode(name, body)>> \o rest :
                      name \in NodeNames, body \in [1..k -> AssignSet],
                      rest \in NodeSeqs(s - 1 - k) } : k \in 0..(s - 1) }

Files == NodeSeqs(MaxFileSize)

\* ------------------------------------------------------------ Compile, run
ParseIdle ==
    /\ input = <<>> /\ rerr = io_EOF
    /\ lx = [rd |-> 0, pos |-> 0, lastRuneSize |-> 0]
    /\ lexpc = "off" /\ pending = [item |-> NoItem, more |-> TRUE, err |-> Nil]
    /\ lexErr = Nil
    /\ items = <<>> /\ closes = 0 /\ sent = <<>> /\ done = <<>>
    /\ peeked = <<>> /\ parpc = "off" /\ parFile = NilFile /\ crashed = FALSE
    /\ early = FALSE
    /\ mainpc = "off" /\ ret = [file |-> NilFile, err |-> Nil]

\* ir.Module.NewFunc(name, retType, params...): a function of the module.
NewFunc(name, retType, params) ==
    [name |-> name, retType |-> retType, params |-> params]

\* The orders in which range may visit the keys of a Go map.
Orders(S) ==
    { o \in [1..Cardinality(S) -> S] : \A x \in S : \E i \in DOMAIN o : o[i] = x }

\* A Compile that declares print in no table.
InitCompileWithoutPrint ==
    /\ file \in Files
    /\ cpc = "node" /\ cidx = 1 /\ aidx = 0
    /\ cvars = EmptyMap
    /\ funcs = EmptyMap
    /\ cmod = <<NewFunc(print, "void", <<"i8*">>)>>
    /\ cerr = Nil
    /\ ParseIdle /\ ParserIdle

\* Compile is called with a file; the module declares print and c.funcs
\* holds it.
InitCompile ==
    /\ file \in Files
    /\ cpc = "node" /\ cidx = 1 /\ aidx = 0
    /\ cvars = EmptyMap
    /\ funcs = (print :> PrintFunc)
    /\ cmod = <<NewFunc(print, "void", <<"i8*">>)>>
    /\ cerr = Nil
    /\ ParseIdle /\ ParserIdle

\* c.node up to the loop over n.Body: vars holds the parameters, and the
\* module has the function of the node, its parameters in the order range
\* gave the input parameters.
NodeBegin ==
    /\ cpc = "node" /\ cidx <= Len(file)
    /\ cvars' = c_node_vars(file[cidx])
    /\ \E o \in Orders(DOMAIN file[cidx].InParams) :
          cmod' = Append(cmod, NewFunc(file[cidx].Name, "void",
                      [i \in DOMAIN o |-> c_typ(file[cidx].InParams[o[i]])]))
    /\ aidx' = 1
    /\ cpc' = "assign"
    /\ UNCHANGED <<file, cidx, funcs, cerr, parseVars, parserVars>>

AssignStep_r(r, n) ==
    IF r.err # Nil /\ r.err.e = "panic"
    THEN cerr' = r.err /\ cpc' = "panicked" /\ UNCHANGED <<cvars, aidx>>
    ELSE IF r.err # Nil
    THEN cerr' = ErrCompileNode(n.Name, r.err) /\ cpc' = "done" /\ UNCHANGED <<cvars, aidx>>
    ELSE cvars' = r.env /\ aidx' = aidx + 1 /\ UNCHANGED <<cerr, cpc>>

\* One turn of the loop over n.Body: c.assign, whose error ends Compile.
AssignStep ==
    /\ cpc = "assign" /\ aidx <= Len(file[cidx].Body)
    /\ AssignStep_r(c_assign(file[cidx].Body[aidx], cvars, funcs), file[cidx])
    /\ UNCHANGED <<file, cidx, funcs, cmod, parseVars, parserVars>>

\* A table that keeps the first function it was given for a name.
NodeEndKeepFirst ==
    /\ cpc = "assign" /\ aidx > Len(file[cidx].Body)
    /\ funcs' = funcs @@ (file[cidx].Name :> cidx)
    /\ cidx' = cidx + 1
    /\ cpc' = "node"
    /\ UNCHANGED <<file, aidx, cvars, cmod, cerr, parseVars, parserVars>>

\* The end of c.node: c.funcs[n.Name] = f, and Compile's loop goes on.
NodeEnd ==
    /\ cpc = "assign" /\ aidx > Len(file[cidx].Body)
    /\ funcs' = (file[cidx].Name :> cidx) @@ funcs
    /\ cidx' = cidx + 1
    /\ cpc' = "node"
    /\ UNCHANGED <<file, aidx, cvars, cmod, cerr, parseVars, parserVars>>

\* Compile returns nil after the last node.
CompileReturn ==
    /\ cpc = "node" /\ cidx > Len(file)
    /\ cpc' = "done"
    /\ UNCHANGED <<file, cidx, aidx, cvars, funcs, cmod, cerr, parseVars, parserVars>>

NextCompile == NodeBegin \/ AssignStep \/ NodeEnd \/ CompileReturn

SpecCompile == InitCompile /\ [][NextCompile]_vars

\* ---------------------------------------------------- properties of Compile
\* What lowering looks up in an expression, in the order it does: the node of
\* a call, then what its arguments look up; the name of a variable.
RECURSIVE Lookups(_), LookupsAll(_)
Lookups(e) ==
    CASE e.k = "Call" -> <<[k |-> "call", name |-> e.Name]>> \o LookupsAll(e.Args)
      [] e.k = "Var" -> <<[k |-> "var", name |-> e.Name]>>
      [] e.k = "Tuple" -> LookupsAll(e.Elems)
      [] e.k = "BinOp" -> Lookups(e.Left) \o Lookups(e.Right)
      [] e.k = "If" -> Lookups(e.Cond) \o Lookups(e.Body) \o Lookups(e.Else)
      [] OTHER -> <<>>
LookupsAll(es) == IF es = <<>> THEN <<>> ELSE Lookups(Head(es)) \o LookupsAll(Tail(es))

\* The places of the file: <<i, a, k>> is the k-th lookup of the a-th
\* equation of the i-th node.
Places ==
    UNION { UNION { { <<i, a, k>> : k \in 1..Len(Lookups(file[i].Body[a].Body)) } :
                    a \in 1..Len(file[i].Body) } :
            i \in 1..Len(file) }
LookupAt(pl) == Lookups(file[pl[1]].Body[pl[2]].Body)[pl[3]]
Before(q, pl) ==
    \/ q[1] < pl[1]
    \/ q[1] = pl[1] /\ q[2] < pl[2]
    \/ q[1] = pl[1] /\ q[2] = pl[2] /\ q[3] < pl[3]

DeclaredBefore(g, i) == \E j \in 1..(i - 1) : file[j].Name = g
IsParam(v, i) == v \in DOMAIN file[i].InParams \cup DOMAIN file[i].OutParams
\* An earlier equation of node i has v among its destinations.
AssignedBefore(v, i, a) ==
    \E b \in 1..(a - 1) : \E d \in 1..Len(file[i].Body[b].Dst) : file[i].Body[b].Dst[d] = v
\* An earlier equation of node i has v as its first destination.
BoundBefore(v, i, a) == \E b \in 1..(a - 1) : file[i].Body[b].Dst[1] = v

UndeclaredCall(pl) ==
    /\ LookupAt(pl).k = "call" /\ LookupAt(pl).name # print
    /\ ~DeclaredBefore(LookupAt(pl).name, pl[1])
UnassignedVar(pl) ==
    /\ LookupAt(pl).k = "var" /\ ~IsParam(LookupAt(pl).name, pl[1])
    /\ ~AssignedBefore(LookupAt(pl).name, pl[1], pl[2])
LookupFails(pl) ==
    IF LookupAt(pl).k = "call" THEN UndeclaredCall(pl)
    ELSE ~IsParam(LookupAt(pl).name, pl[1]) /\ ~BoundBefore(LookupAt(pl).name, pl[1], pl[2])
IsFirstFailure(pl) ==
    LookupFails(pl) /\ \A q \in Places : Before(q, pl) => ~LookupFails(q)

\* C7: when the body of the i-th node calls a node g, not print, that no
\* node before the i-th is named g, Compile returns an error, and when that
\* call is the first lookup to fail the error is the undefined-node error
\* that names g.
C7_CallBeforeDeclaration ==
    cpc = "done" =>
        \A pl \in Places : UndeclaredCall(pl) =>
            /\ cerr # Nil
            /\ IsFirstFailure(pl) =>
                  cerr = ErrCompileNode(file[pl[1]].Name,
                                        ErrUndefinedNode(LookupAt(pl).name))

\* Compile has returned the undefined-node error for a call of g in a file
\* that declares g later.
C7_CallOfLaterNode ==
    /\ cpc = "done" /\ Len(file) = 2
    /\ file[1].Name = nf /\ file[2].Name = ng
    /\ cerr = ErrCompileNode(nf, ErrUndefinedNode(ng))

\* C8, as claimed: a Var of a local name that no earlier equation of its
\* node has assigned makes Compile return the undefined-variable error that
\* names it.
C8_UnassignedVarIsNamed ==
    cpc = "done" =>
        \A pl \in Places : UnassignedVar(pl) =>
            cerr = ErrCompileNode(file[pl[1]].Name, ErrUndefinedVar(LookupAt(pl).name))

\* C8, amended: the equations of a node are lowered in order and vars only
\* grows while they are; a Var of a local name that no earlier equation of
\* its node has assigned makes Compile return an error, which is the
\* undefined-variable error that names it when that Var is the first lookup
\* to fail, even if a later equation assigns the name.
C8_FirstUnassignedVarIsNamed ==
    /\ [](cpc = "done" =>
            \A pl \in Places : UnassignedVar(pl) =>
                /\ cerr # Nil
                /\ IsFirstFailure(pl) =>
                      cerr = ErrCompileNode(file[pl[1]].Name,
                                            ErrUndefinedVar(LookupAt(pl).name)))
    /\ [][cpc = "assign" /\ cpc' = "assign" /\ cidx' = cidx =>
            /\ aidx' = aidx + 1
            /\ DOMAIN cvars \subseteq DOMAIN cvars']_vars

\* Compile has returned the undefined-variable error for y, which the next
\* equation of the node assigns.
C8_ForwardReference ==
    /\ cpc = "done" /\ Len(file) = 1 /\ Len(file[1].Body) = 2
    /\ file[1].Body[1].Body = ExprVar(ny)
    /\ file[1].Body[2].Dst[1] = ny
    /\ cerr = ErrCompileNode(file[1].Name, ErrUndefinedVar(ny))

\* Compile returns an error only when a lookup fails: no other check rejects
\* a file.
RejectsOnlyFailedLookups ==
    cpc = "done" /\ cerr # Nil => \E pl \in Places : LookupFails(pl)

\* C12: in every Compile run, from before the first node is lowered, the
\* module declares print with one i8* parameter and no return value and the
\* function table holds it; Compile never returns the undefined-node error
\* for print, wherever the call stands.
C12_PrintIsDeclared ==
    cpc # "off" =>
        /\ print \in DOMAIN funcs
        /\ funcs[print] = PrintFunc
        /\ cmod # <<>>
        /\ cmod[PrintFunc + 1] = NewFunc(print, "void", <<"i8*">>)
        /\ cerr # Nil /\ cerr.e = "failed to compile node" =>
              cerr.cause # ErrUndefinedNode(print)

\* The call of print in the first equation of the second node has been
\* lowered without error.
C12_PrintCalledInSecondNode ==
    /\ cpc = "assign" /\ cidx = 2 /\ aidx = 2 /\ cerr = Nil
    /\ file[2].Body[1].Body.k = "Tuple"
    /\ file[2].Body[1].Body.Elems[2] = ExprCall(print, <<ExprConstString(<<"s">>)>>)
    /\ cvars[ny] = Val("global undef", "struct", -1, 2)

\* The last node before the i-th that is named g.
LatestBefore(g, i) ==
    CHOOSE j \in 1..(i - 1) :
        /\ file[j].Name = g
        /\ \A k \in (j + 1)..(i - 1) : file[k].Name # g

\* C14: Compile does not reject a file for two nodes of one name; while the
\* i-th node is lowered the function table maps each name to the function
\* of the last node before the i-th that has the name (the module holds one
\* function per node lowered, same names included), so a call g(...) that
\* is the body of an equation resolves to the later declaration after both,
\* and to the earlier one between the two or inside the second.
C14_LaterDeclarationWins ==
    /\ [](RejectsOnlyFailedLookups)
    /\ [](cpc \in {"node", "assign"} =>
            /\ \A g \in NodeNames :
                  IF DeclaredBefore(g, cidx)
                  THEN /\ g \in DOMAIN funcs
                       /\ funcs[g] = LatestBefore(g, cidx)
                       /\ cmod[funcs[g] + 1].name = g
                  ELSE g \notin DOMAIN funcs
            /\ Len(cmod) = (IF cpc = "node" THEN cidx ELSE cidx + 1)
            /\ \A j \in 1..(Len(cmod) - 1) : cmod[j + 1].name = file[j].Name)
    /\ [][cpc = "assign" /\ cpc' = "assign" /\ cidx' = cidx
            /\ file[cidx].Body[aidx].Body.k = "Call"
            /\ file[cidx].Body[aidx].Body.Name # print =>
              cvars'[file[cidx].Body[aidx].Dst[1]] =
                  Val("call", "", LatestBefore(file[cidx].Body[aidx].Body.Name, cidx),
                      Len(file[cidx].Body[aidx].Body.Args))]_vars

\* The first two nodes are both named g; the second one's call of g has
\* resolved to the first, and the third node's call of g to the second.
C14_CallAfterTwoDeclarations ==
    /\ cpc = "assign" /\ cidx = 3 /\ aidx = 2 /\ Len(file) = 3
    /\ file[1].Name = ng /\ file[2].Name = ng /\ file[3].Name = nf
    /\ file[2].Body = <<Assign(<<ny>>, ExprCall(ng, <<ExprConstInt(1)>>))>>
    /\ file[3].Body[1] = Assign(<<ny>>, ExprCall(ng, <<ExprConstInt(1)>>))
    /\ cvars[ny] = Val("call", "", 2, 1)
    /\ funcs[ng] = 2

\* The names ctx.vars holds when the a-th equation of the i-th node is
\* lowered: the parameters and the first destination of each earlier
\* equation.
EnvNames(i, a) ==
    DOMAIN file[i].InParams \cup DOMAIN file[i].OutParams
    \cup {file[i].Body[b].Dst[1] : b \in 1..(a - 1)}

\* The lookup is a Var of a name that earlier equations of the node have
\* only as a second or later destination, and that is no parameter.
LaterDestinationOnly(pl) ==
    /\ LookupAt(pl).k = "var"
    /\ LookupAt(pl).name \notin EnvNames(pl[1], pl[2])
    /\ \E b \in 1..(pl[2] - 1) : \E d \in 2..Len(file[pl[1]].Body[b].Dst) :
          file[pl[1]].Body[b].Dst[d] = LookupAt(pl).name

\* C16, as claimed: lowering an Assign binds only its first destination, so
\* a later Var of a second or later destination that is not otherwise in
\* the environment makes Compile return the undefined-variable error that
\* names it.
C16_LaterDestinationIsNamed ==
    /\ cpc = "assign" => DOMAIN cvars = EnvNames(cidx, aidx)
    /\ cpc = "done" =>
          \A pl \in Places : LaterDestinationOnly(pl) =>
              cerr = ErrCompileNode(file[pl[1]].Name, ErrUndefinedVar(LookupAt(pl).name))

\* C16, amended: lowering an Assign binds its first destination and nothing
\* else: it leaves every other name of the environment as it was, binds the
\* first destination to the value of the body whether or not the name was
\* bound (no error comes of it), and binds no second or later destination;
\* a later Var of such a destination that is not otherwise in the
\* environment makes Compile return an error, which is the
\* undefined-variable error that names it when that Var is the first lookup
\* to fail.
C16_OnlyFirstDestinationBound ==
    /\ [](cpc = "assign" => DOMAIN cvars = EnvNames(cidx, aidx))
    /\ [](RejectsOnlyFailedLookups)
    /\ [](cpc = "done" =>
            \A pl \in Places : LaterDestinationOnly(pl) =>
                /\ cerr # Nil
                /\ IsFirstFailure(pl) =>
                      cerr = ErrCompileNode(file[pl[1]].Name,
                                            ErrUndefinedVar(LookupAt(pl).name)))
    /\ [][cpc = "assign" /\ cpc' = "assign" /\ cidx' = cidx =>
            /\ DOMAIN cvars' = DOMAIN cvars \cup {file[cidx].Body[aidx].Dst[1]}
            /\ \A v \in DOMAIN cvars \ {file[cidx].Body[aidx].Dst[1]} :
                  cvars'[v] = cvars[v]
            /\ file[cidx].Body[aidx].Body.k = "Var" =>
                  cvars'[file[cidx].Body[aidx].Dst[1]] =
                      cvars[file[cidx].Body[aidx].Body.Name]
            /\ file[cidx].Body[aidx].Body.k = "Tuple" =>
                  cvars'[file[cidx].Body[aidx].Dst[1]].v = "global undef"]_vars

\* Compile has returned the undefined-variable error for z, the second
\* destination of the equation before, whose first destination y had a value
\* already and was lowered again without error.
C16_SecondDestinationUnbound ==
    /\ cpc = "done" /\ Len(file) = 2 /\ file[1].Name = nf
    /\ Len(file[2].Body) = 3
    /\ file[2].Body[1].Dst = <<ny, nz>>
    /\ file[2].Body[2].Dst = <<ny, nz>>
    /\ file[2].Body[3].Body =
          ExprBinOp(BinOpPlus, ExprCall(nf, <<ExprVar(ny)>>), ExprVar(nz))
    /\ cerr = ErrCompileNode(file[2].Name, ErrUndefinedVar(nz))

\* ------------------------------------------------- the parser, on its own
\* The items the lexer sends for the source texts the parser is run on.
tIdent(name) == item(itemIdent, name)
tKeyword(kw) == item(itemKeyword, kw)
tNumber1 == item(itemNumber, <<"1">>)
tLparen == item(itemLparen, <<"(">>)
tRparen == item(itemRparen, <<")">>)
tColon == item(itemColon, <<":">>)
tSemi == item(itemSemi, <<";">>)
tComma == item(itemComma, <<",">>)
tEq == item(itemEq, <<"=">>)
tPlus == item(itemOp, <<"+">>)
tEOF == item(itemEOF, <<>>)

\* The longest expression drawn, and the most equations of a node drawn.
MaxExprLen == 4
MaxEqs == 2

ExprAlphabet == {tIdent(na), tNumber1, tLparen, tRparen, tComma, tPlus}

RECURSIVE SeqsUpTo(_, _)
SeqsUpTo(S, n) ==
    IF n = 0 THEN {<<>>}
    ELSE SeqsUpTo(S, n - 1) \cup [1..n -> S]

ExprInputs == SeqsUpTo(ExprAlphabet, MaxExprLen)

\* The nodes of the grammar: node f ( ins ) returns ( outs ) ; var? let eqs tel.
InsSet == {<<>>, <<tIdent(na), tColon, tKeyword(keywordInt)>>}
OutsSet ==
    { <<>>,
      <<tIdent(nx), tColon, tKeyword(keywordInt)>>,
      <<tIdent(nx), tComma, tIdent(ny), tColon, tKeyword(keywordInt)>> }
VarSet == {<<>>, <<tKeyword(keywordVar), tIdent(nz), tColon, tKeyword(keywordInt)>>}
EqSet ==
    { <<tIdent(nx), tEq, tNumber1, tSemi>>,
      <<tIdent(nx), tEq, tIdent(na), tPlus, tNumber1, tSemi>>,
      <<tLparen, tIdent(nx), tComma, tIdent(ny), tRparen, tEq,
        tLparen, tNumber1, tComma, tIdent(na), tRparen, tSemi>>,
      <<tIdent(nx), tEq, tLparen, tNumber1, tRparen, tSemi>>,
      <<tIdent(nx), tEq, tIdent(nf), tLparen, tRparen, tSemi>> }

RECURSIVE Flat(_)
Flat(ss) == IF ss = <<>> THEN <<>> ELSE Head(ss) \o Flat(Tail(ss))

NodeToks(ins, outs, loc, eqs) ==
    <<tKeyword(keywordNode), tIdent(nf), tLparen>> \o ins
    \o <<tRparen, tKeyword(keywordReturns), tLparen>> \o outs
    \o <<tRparen, tSemi>> \o loc \o <<tKeyword(keywordLet)>> \o Flat(eqs)
    \o <<tKeyword(keywordTel)>>

NodeInputs ==
    { NodeToks(ins, outs, loc, eqs) :
        ins \in InsSet, outs \in OutsSet, loc \in VarSet,
        eqs \in SeqsUpTo(EqSet, MaxEqs) }

\* What a run of the parser gives: its error, its value, how many items it
\* accepted, whether it asked for more items than there are, and the message
\* of a panic of accept.
Outcome(r) ==
    [err |-> r.err, val |-> r.val, accepted |-> r.p.i, starved |-> r.p.starved,
     panic |-> r.p.panic]

\* ---- chains of operand members joined by operators
tMinus == item(itemOp, <<"-">>)
tLt == item(itemOp, <<"<">>)
tGt == item(itemOp, <<">">>)
tFby == tKeyword(keywordFby)

\* The most members of a chain drawn.
MaxChain == 3

\* The members: a, 1, f(a), (a, 1) and (a).
Members == {"var", "const", "call", "tuple", "group"}
MemberToks(m) ==
    CASE m = "var" -> <<tIdent(na)>>
      [] m = "const" -> <<tNumber1>>
      [] m = "call" -> <<tIdent(nf), tLparen, tIdent(na), tRparen>>
      [] m = "tuple" -> <<tLparen, tIdent(na), tComma, tNumber1, tRparen>>
      [] m = "group" -> <<tLparen, tIdent(na), tRparen>>

\* The operators the tokenizer emits between two members (lexer.go:219-220,
\* and the keyword fby).
ChainOps == {tFby, tPlus, tMinus, tLt, tGt}

\* The chains of n members.
Chains(n) ==
    { [ms |-> ms, ops |-> ops] :
        ms \in [1..n -> Members], ops \in [1..(n - 1) -> ChainOps] }

RECURSIVE ChainToks(_, _)
ChainToks(ms, ops) ==
    IF Len(ms) = 1 THEN MemberToks(ms[1])
    ELSE MemberToks(ms[1]) \o <<ops[1]>> \o ChainToks(Tail(ms), Tail(ops))

InitParser ==
    /\ \/ /\ pmode = "expr" /\ ptoks \in ExprInputs
          /\ pchain = [ms |-> <<>>, ops |-> <<>>]
       \/ /\ pmode = "file" /\ ptoks \in NodeInputs
          /\ pchain = [ms |-> <<>>, ops |-> <<>>]
       \/ /\ pmode = "chain" /\ \E n \in 1..MaxChain : pchain \in Chains(n)
          /\ ptoks = ChainToks(pchain.ms, pchain.ops)
    /\ pout = Nil
    /\ ParseIdle /\ CompIdle

\* p.expr() on the items of e, of ( e ), of ( e , e ) and of ( e , 1 , e ).
ParseExpr ==
    /\ pmode = "expr" /\ pout = Nil
    /\ pout' = [plain |-> Outcome(expr(NewParser(ptoks \o <<tEOF>>))),
                group |-> Outcome(expr(NewParser(
                    <<tLparen>> \o ptoks \o <<tRparen, tEOF>>))),
                pair |-> Outcome(expr(NewParser(
                    <<tLparen>> \o ptoks \o <<tComma>> \o ptoks \o <<tRparen, tEOF>>))),
                triple |-> Outcome(expr(NewParser(
                    <<tLparen>> \o ptoks \o <<tComma, tNumber1, tComma>> \o ptoks
                    \o <<tRparen, tEOF>>)))]
    /\ UNCHANGED <<ptoks, pmode, pchain, parseVars, compVars>>

\* p.parse() on the items of a file of one node.
ParseFile ==
    /\ pmode = "file" /\ pout = Nil
    /\ pout' = [file |-> Outcome(parse(NewParser(ptoks \o <<tEOF>>)))]
    /\ UNCHANGED <<ptoks, pmode, pchain, parseVars, compVars>>

\* p.expr() on the items of a chain, and p.parse() on the items of the file
\* of one node whose equation is x = chain.
ParseChain ==
    /\ pmode = "chain" /\ pout = Nil
    /\ pout' = [expr |-> Outcome(expr(NewParser(ptoks \o <<tEOF>>))),
                file |-> Outcome(parse(NewParser(
                    NodeToks(<<>>, <<tIdent(nx), tColon, tKeyword(keywordInt)>>,
                             <<>>, <<<<tIdent(nx), tEq>> \o ptoks \o <<tSemi>>>>)
                    \o <<tEOF>>)))]
    /\ UNCHANGED <<ptoks, pmode, pchain, parseVars, compVars>>

NextParser == ParseExpr \/ ParseFile \/ ParseChain

SpecParser == InitParser /\ [][NextParser]_vars

\* ------------------------------------------------ properties of the parser
\* The returns-list of the node declares an output parameter.
HasOutputs(toks) ==
    \E i \in 1..(Len(toks) - 2) :
        /\ toks[i] = tKeyword(keywordReturns)
        /\ toks[i + 2].typ # itemRparen

\* C6: a node of the grammar parses if and only if its returns-list declares
\* an output parameter, whatever the number of its equations; without one,
\* parse returns an error and no File.
C6_ParsesIffOutputs ==
    pmode = "file" /\ pout # Nil =>
        /\ pout.file.err = Nil <=> HasOutputs(ptoks)
        /\ ~HasOutputs(ptoks) => pout.file.err = ErrNoOut /\ pout.file.val = NilFile

\* C9: when expr accepts e whole, it accepts ( e ) whole, closing
\* parenthesis included, and gives the expression of e; and it accepts
\* ( e , e ) and ( e , 1 , e ) whole and gives the Tuple of their elements
\* in order.
C9_GroupedExpression ==
    pmode = "expr" /\ pout # Nil
    /\ pout.plain.err = Nil /\ pout.plain.accepted = Len(ptoks) =>
        /\ pout.group.err = Nil
        /\ pout.group.val = pout.plain.val
        /\ pout.group.accepted = Len(ptoks) + 2
        /\ pout.pair.err = Nil
        /\ pout.pair.val = ExprTuple(<<pout.plain.val, pout.plain.val>>)
        /\ pout.pair.accepted = 2 * Len(ptoks) + 3
        /\ pout.triple.err = Nil
        /\ pout.triple.val =
              ExprTuple(<<pout.plain.val, ExprConstInt(1), pout.plain.val>>)
        /\ pout.triple.accepted = 2 * Len(ptoks) + 5

\* The chain spells no comparison: its operators are fby, + and -.
ArithOps == {tFby, tPlus, tMinus}
IsArith(c) == \A i \in DOMAIN c.ops : c.ops[i] \in ArithOps
\* The chain has no member that is a parenthesised single expression.
IsUngrouped(c) == \A i \in DOMAIN c.ms : c.ms[i] # "group"

\* C11: whatever items the tokenizer emits, the parser ends by returning:
\* p.expr() and p.parse() never panic, neither with "unknown binary
\* operation" nor with "accepted a nil item", and p.parse() returns a File
\* exactly when it returns no error.
C11_NoParserPanic ==
    pout # Nil =>
        /\ \A k \in DOMAIN pout :
              pout[k].err.e # "panic" /\ pout[k].panic = ""
        /\ "file" \in DOMAIN pout =>
              (pout.file.err = Nil <=> pout.file.val # NilFile)

\* The part of C11 on accept: p.cur is never nil when accept is called.
C11_AcceptHasItem ==
    pout # Nil => \A k \in DOMAIN pout : pout[k].panic = ""

\* The part of C11 on chains without comparison: no panic.
C11_NoPanicWithoutComparison ==
    pout # Nil /\ pmode = "chain" /\ IsArith(pchain) =>
        \A k \in DOMAIN pout : pout[k].err.e # "panic"

\* The expression of each member, as the grammar gives it.
MemberExpr(m) ==
    CASE m = "var" -> ExprVar(na)
      [] m = "const" -> ExprConstInt(1)
      [] m = "call" -> ExprCall(nf, <<ExprVar(na)>>)
      [] m = "tuple" -> ExprTuple(<<ExprVar(na), ExprConstInt(1)>>)
      [] m = "group" -> ExprVar(na)

BinOpOf(op) ==
    CASE op = tFby -> BinOpFby
      [] op = tPlus -> BinOpPlus
      [] op = tMinus -> BinOpMinus

\* BinOp(op1, m1, BinOp(op2, m2, ... mn)).
RECURSIVE RightNest(_, _)
RightNest(ms, ops) ==
    IF Len(ms) = 1 THEN MemberExpr(ms[1])
    ELSE ExprBinOp(BinOpOf(ops[1]), MemberExpr(ms[1]),
                   RightNest(Tail(ms), Tail(ops)))

\* C13: for members m1..mn joined by fby, + and -, expr returns the
\* right-nested BinOp(op1, m1, BinOp(op2, m2, ... mn)): the right operand of
\* each operator is the whole remainder of the expression.
C13_RightNested ==
    pmode = "chain" /\ pout # Nil /\ IsArith(pchain) =>
        /\ pout.expr.err = Nil
        /\ pout.expr.val = RightNest(pchain.ms, pchain.ops)

\* C13 without a parenthesised single expression among the members.
C13_RightNestedUngrouped ==
    pmode = "chain" /\ pout # Nil /\ IsArith(pchain) /\ IsUngrouped(pchain) =>
        /\ pout.expr.err = Nil
        /\ pout.expr.val = RightNest(pchain.ms, pchain.ops)
        /\ pout.expr.accepted = Len(ptoks)
        /\ pout.file.err = Nil

\* a + 1 - a is parsed as Plus(a, Minus(1, a)).
C13_PlusMinus ==
    ~(/\ pmode = "chain" /\ pout # Nil
      /\ pchain = [ms |-> <<"var", "const", "var">>, ops |-> <<tPlus, tMinus>>]
      /\ pout.expr.val =
            ExprBinOp(BinOpPlus, ExprVar(na),
                      ExprBinOp(BinOpMinus, ExprConstInt(1), ExprVar(na))))

====
